---- MODULE Spec2Model ----
\* Auto Form Fill orchestrator (src/main.py): input validation, template
\* resolution with matcher fallback, extraction, override merge, fill, save.
EXTENDS Integers, Sequences, FiniteSets, TLC

\* ---------------------------------------------------------------- bounds
\* Longest `fields` list of a template given to validate_template alone.
MaxFields == 3
\* Number of distinct field names in the data given to merge_data alone.
MaxKeys == 2
\* The same two bounds for the templates and the data of a whole run of main.
MaxRunFields == 1
MaxRunKeys == 1

\* ---------------------------------------------------------------- values
FieldNames == <<"full_name", "dob", "address", "phone">>
KeysUpTo(n) == {FieldNames[i] : i \in 1..n}
Vals == {"Jane Doe", "J. Doe"}
\* A value that is not a str (an int, None, ...): len(value) raises TypeError.
NonStr == "<non-str>"

\* A field element of template['fields']: a dict with some of the keys, or
\* a value that is not a dict.
FieldKeys == {"name", "pixel_bbox"}
FieldValues ==
    {[type |-> "dict", keys |-> ks] : ks \in SUBSET FieldKeys}
        \cup {[type |-> "str", keys |-> {}]}

SeqsUpTo(S, n) == UNION {[1..k -> S] : k \in 0..n}

\* The value stored under template['fields']: a list, or something else.
FieldsValues(n) ==
    {[type |-> "list", items |-> s] : s \in SeqsUpTo(FieldValues, n)}
        \cup {[type |-> "str", items |-> <<>>]}

NoFields == [type |-> "str", items |-> <<>>]

\* A candidate template: a dict (with or without the 'fields' key), or a JSON
\* value that is no dict: null, or an array (hasFields: "fields" is an element).
TemplateValues(n) ==
    {[type |-> "dict", hasFields |-> TRUE, fields |-> f] : f \in FieldsValues(n)}
        \cup {[type |-> "dict", hasFields |-> FALSE, fields |-> NoFields]}
        \cup {[type |-> "None", hasFields |-> FALSE, fields |-> NoFields]}
        \cup {[type |-> "list", hasFields |-> h, fields |-> NoFields] : h \in BOOLEAN}

NoTemplate == [type |-> "unset", hasFields |-> FALSE, fields |-> NoFields]

\* Data mappings (extracted / override / merged): a dict from field names to
\* values, None, or a JSON array.
EmptyMap == [k \in {} |-> NonStr]
MapsOver(K, V) == UNION {[ks -> V] : ks \in SUBSET K}
DictOf(m) == [type |-> "dict", map |-> m]
NoneData == [type |-> "None", map |-> EmptyMap]
ListData == [type |-> "list", map |-> EmptyMap]
UnsetData == [type |-> "unset", map |-> EmptyMap]

\* ---------------------------------------------------------------- errors
Err(k, i) == [kind |-> k, index |-> i]
NoError == Err("ok", -1)
MatcherError == Err("MatcherError", -1)
CollaboratorError == Err("CollaboratorError", -1)

\* ------------------------------------------------------ validate_template
RECURSIVE CheckFields(_, _)
\* The loop of lines 44-50; i is the 1-based position, enumerate's index is i-1.
CheckFields(items, i) ==
    IF i > Len(items) THEN NoError
    ELSE IF items[i].type # "dict" THEN Err("FieldNotObject", i - 1)
    ELSE IF "name" \notin items[i].keys THEN Err("FieldMissingName", i - 1)
    ELSE IF "pixel_bbox" \notin items[i].keys THEN Err("FieldMissingBBox", i - 1)
    ELSE CheckFields(items, i + 1)

RECURSIVE CheckFieldsNoBBox(_, _)
CheckFieldsNoBBox(items, i) ==
    IF i > Len(items) THEN NoError
    ELSE IF items[i].type # "dict" THEN Err("FieldNotObject", i - 1)
    ELSE IF "name" \notin items[i].keys THEN Err("FieldMissingName", i - 1)
    ELSE CheckFieldsNoBBox(items, i + 1)

RECURSIVE CheckFieldsNameLast(_, _)
CheckFieldsNameLast(items, i) ==
    IF i > Len(items) THEN NoError
    ELSE IF items[i].type # "dict" THEN Err("FieldNotObject", i - 1)
    ELSE IF "pixel_bbox" \notin items[i].keys THEN Err("FieldMissingBBox", i - 1)
    ELSE IF "name" \notin items[i].keys THEN Err("FieldMissingName", i - 1)
    ELSE CheckFieldsNameLast(items, i + 1)

\* validate_template with the name / pixel_bbox checks swapped.
validate_template_name_last(template) ==
    IF template.type = "None" THEN Err("TypeError", -1)
    ELSE IF ~template.hasFields THEN Err("MissingFieldsKey", -1)
    ELSE IF template.type # "dict" THEN Err("TypeError", -1)
    ELSE IF template.fields.type # "list" THEN Err("FieldsNotList", -1)
    ELSE CheckFieldsNameLast(template.fields.items, 1)

\* validate_template without the pixel_bbox check.
validate_template_no_bbox(template) ==
    IF template.type = "None" THEN Err("TypeError", -1)
    ELSE IF ~template.hasFields THEN Err("MissingFieldsKey", -1)
    ELSE IF template.type # "dict" THEN Err("TypeError", -1)
    ELSE IF template.fields.type # "list" THEN Err("FieldsNotList", -1)
    ELSE CheckFieldsNoBBox(template.fields.items, 1)

\* validate_template without the isinstance(..., list) check: a non-list
\* `fields` is iterated as if it were an empty list.
validate_template_no_list_check(template) ==
    IF template.type = "None" THEN Err("TypeError", -1)
    ELSE IF ~template.hasFields THEN Err("MissingFieldsKey", -1)
    ELSE IF template.type # "dict" THEN Err("TypeError", -1)
    ELSE CheckFields(template.fields.items, 1)

\* The error validate_template raises, NoError when it returns.  A value
\* that is no dict raises TypeError at `in` (null) or at the subscript
\* (an array holding "fields"); an array without "fields" fails rule 1.
validate_template(template) ==
    IF template.type = "None" THEN Err("TypeError", -1)
    ELSE IF ~template.hasFields THEN Err("MissingFieldsKey", -1)
    ELSE IF template.type # "dict" THEN Err("TypeError", -1)
    ELSE IF template.fields.type # "list" THEN Err("FieldsNotList", -1)
    ELSE CheckFields(template.fields.items, 1)

\* ------------------------------------------------------------- merge_data
\* dict.update: keys of `other` are set in `base`.
Update(base, other) ==
    [k \in DOMAIN base \cup DOMAIN other |->
        IF k \in DOMAIN other THEN other[k] ELSE base[k]]

\* Python truthiness of override_data: None and {} are false.
Truthy(data) == data.type = "dict" /\ DOMAIN data.map # {}

\* merge_data that only replaces known keys (unknown override keys dropped).
merge_data_known_only(extracted_data, override_data) ==
    IF Truthy(override_data)
    THEN DictOf([k \in DOMAIN extracted_data.map |->
                    IF k \in DOMAIN override_data.map
                    THEN override_data.map[k] ELSE extracted_data.map[k]])
    ELSE DictOf(extracted_data.map)

\* merge_data that keeps only the entries unique to either side (a key
\* present in both is dropped instead of overridden).
merge_data_exclusive(extracted_data, override_data) ==
    IF Truthy(override_data)
    THEN DictOf([k \in (DOMAIN extracted_data.map \cup DOMAIN override_data.map)
                         \ (DOMAIN extracted_data.map \cap DOMAIN override_data.map) |->
                    IF k \in DOMAIN override_data.map
                    THEN override_data.map[k] ELSE extracted_data.map[k]])
    ELSE DictOf(extracted_data.map)

merge_data(extracted_data, override_data) ==
    IF Truthy(override_data)
    THEN DictOf(Update(extracted_data.map, override_data.map))
    ELSE DictOf(extracted_data.map)

\* --------------------------------------------------------- load_json_file
\* A file of the filesystem: missing, a directory or unreadable file (open
\* raises an OSError other than FileNotFoundError), invalid JSON, or JSON.
BadFile(st, dummy) == [st |-> st, json |-> dummy]
TemplateFiles ==
    {BadFile(st, NoTemplate) : st \in {"missing", "unreadable", "invalid"}}
        \cup {[st |-> "ok", json |-> t] : t \in TemplateValues(MaxRunFields)}
OverrideValues ==
    {DictOf(m) : m \in MapsOver(KeysUpTo(MaxRunKeys), Vals)} \cup {NoneData, ListData}
DataFiles ==
    {BadFile(st, UnsetData) : st \in {"missing", "unreadable", "invalid"}}
        \cup {[st |-> "ok", json |-> d] : d \in OverrideValues}

\* os.path.exists of the path of `file`.
PathExists(file) == file.st # "missing"

\* The parsed value, or the error raised: FileNotFoundError (line 32),
\* ValueError for invalid JSON (line 34), any other OSError of open().
load_json_file(file) ==
    IF file.st = "missing" THEN [err |-> Err("FileNotFound", -1), value |-> file.json]
    ELSE IF file.st = "invalid" THEN [err |-> Err("ParseError", -1), value |-> file.json]
    ELSE IF file.st = "unreadable" THEN [err |-> Err("OSError", -1), value |-> file.json]
    ELSE [err |-> NoError, value |-> file.json]

\* ------------------------------------------------------------------ state
VARIABLES
    args,             \* parsed command line: args.data is "None", "" or a path
    matcherAvailable, \* hasattr(match_template, '__call__')
    fs,               \* filesystem: image, template file, data file, output
    pc,               \* position of the run
    exitCode,         \* -1 while running, then the process exit code
    report,           \* the diagnostic printed at the end of the run
    cause,            \* the error the diagnostic carries
    failedStage,      \* 0, or the stage (1..6) whose failure ended the run
    stage,            \* history: the last stage (1..6) that was executed
    calls,            \* history: collaborator / loader calls, in order
    matched,          \* history: outcome of match_template
    template,         \* local `template` of main
    extracted_data,   \* local `extracted_data` of main
    override_data,    \* local `override_data` of main
    final_data,       \* local `final_data` of main
    extractorArgs,    \* history: template passed to extract_data_from_image
    fillerArgs,       \* history: template and data passed to fill_form
    fs0,              \* history: the filesystem when the run started
    passed,           \* merge_data alone: the extracted_data argument as passed
    shared            \* merge_data alone: the returned dict is the argument object

vars == <<args, matcherAvailable, fs, pc, exitCode, report, cause, failedStage,
          stage, calls, matched, template, extracted_data, override_data, final_data,
          extractorArgs, fillerArgs, fs0, passed, shared>>

\* What no step of a run changes.
env == <<args, matcherAvailable, fs0, passed, shared>>
locals == <<template, extracted_data, override_data, final_data>>

DataArgs == {"None", "", "data.json"}
\* Python truthiness of args.data (None and "" are false).
StrTruthy(s) == s \notin {"None", ""}

NotRun == [outcome |-> "notrun", ret |-> NoTemplate]
MatcherAbsent == [outcome |-> "absent", ret |-> NoTemplate]
MatcherOutcomes ==
    {[outcome |-> "ok", ret |-> t] : t \in TemplateValues(MaxRunFields)}
        \cup {[outcome |-> o, ret |-> NoTemplate] : o \in {"error", "interrupt"}}
ExtractorOutcomes ==
    {[outcome |-> "ok", ret |-> DictOf(m)] :
        m \in MapsOver(KeysUpTo(MaxRunKeys), Vals \cup {NonStr})}
        \cup {[outcome |-> "ok", ret |-> NoneData]}
        \cup {[outcome |-> o, ret |-> UnsetData] : o \in {"error", "interrupt"}}
CallOutcomes == {"ok", "error", "interrupt"}

NoFillerArgs == [template |-> NoTemplate, data |-> UnsetData]

Init ==
    /\ args \in [data : DataArgs]
    /\ matcherAvailable \in BOOLEAN
    /\ fs \in [image : BOOLEAN, template : TemplateFiles, data : DataFiles,
               outdir : BOOLEAN, output : {FALSE}]
    /\ ~StrTruthy(args.data) => fs.data = BadFile("missing", UnsetData)
    /\ fs0 = fs
    /\ passed = UnsetData
    /\ shared = FALSE
    /\ pc = "import"
    /\ exitCode = -1
    /\ report = "none"
    /\ cause = NoError
    /\ failedStage = 0
    /\ stage = 0
    /\ calls = <<>>
    /\ matched = NotRun
    /\ template = NoTemplate
    /\ extracted_data = UnsetData
    /\ override_data = UnsetData
    /\ final_data = UnsetData
    /\ extractorArgs = NoTemplate
    /\ fillerArgs = NoFillerArgs

\* ------------------------------------------------------------ terminations
\* print the stage's diagnostic and sys.exit(1).
Abort(n, rep, c) ==
    /\ pc' = "exit"
    /\ exitCode' = 1
    /\ report' = rep
    /\ cause' = c
    /\ failedStage' = n

\* The handler of lines 215-217 without its sys.exit(1): the process ends
\* with exit code 0.
CancelledExitZero ==
    /\ pc' = "exit"
    /\ exitCode' = 0
    /\ report' = "UserCancelled"
    /\ cause' = Err("KeyboardInterrupt", -1)
    /\ failedStage' = 0

\* KeyboardInterrupt is no Exception: it passes every `except Exception` of
\* main and reaches the handler of lines 215-217.
Cancelled ==
    /\ pc' = "exit"
    /\ exitCode' = 1
    /\ report' = "UserCancelled"
    /\ cause' = Err("KeyboardInterrupt", -1)
    /\ failedStage' = 0

Continue(next) ==
    /\ pc' = next
    /\ UNCHANGED <<exitCode, report, cause, failedStage>>

\* ------------------------------------------------ module import, lines 15-23
ImportModules ==
    /\ pc = "import"
    /\ \E ok \in BOOLEAN :
         IF ok THEN Continue("validate")
         ELSE /\ pc' = "exit"
              /\ exitCode' = 1
              /\ report' = "ImportFailed"
              /\ cause' = Err("ImportError", -1)
              /\ failedStage' = 0
    /\ UNCHANGED <<stage, env, fs, calls, matched, locals, extractorArgs, fillerArgs>>

\* ------------------------------------------- stage 1, lines 97-112 of main
\* Stage 1 without the check of the override-data path.
MissingInputNoData ==
    IF ~fs.image THEN "image"
    ELSE IF ~PathExists(fs.template) THEN "template"
    ELSE "none"

\* Stage 1 that also parses the override file instead of only probing its
\* path.
MissingInputParsesData ==
    IF ~fs.image THEN "image"
    ELSE IF ~PathExists(fs.template) THEN "template"
    ELSE IF StrTruthy(args.data) /\ load_json_file(fs.data).err.kind # "ok" THEN "data"
    ELSE "none"

\* The first input whose check fails, "none" when all pass.
MissingInput ==
    IF ~fs.image THEN "image"
    ELSE IF ~PathExists(fs.template) THEN "template"
    ELSE IF StrTruthy(args.data) /\ ~PathExists(fs.data) THEN "data"
    ELSE "none"

ValidateInputs ==
    /\ pc = "validate"
    /\ stage' = 1
    /\ IF MissingInput # "none"
       THEN Abort(1, "InputNotFound", Err("InputNotFound:" \o MissingInput, -1))
       ELSE Continue("template")
    /\ UNCHANGED <<env, fs, calls, matched, locals, extractorArgs, fillerArgs>>

\* ------------------------------------------ stage 2, lines 114-137 of main
\* An entry of the call history: the function called and how the call ended
\* ("ok", "error": an Exception was raised, "interrupt": KeyboardInterrupt).
Call(fn, out) == [fn |-> fn, out |-> out]
OutOf(err) == IF err.kind = "ok" THEN "ok" ELSE "error"

Resolved(m, cs, t, e, intr) ==
    [matched |-> m, calls |-> cs, template |-> t, err |-> e, interrupted |-> intr]

\* Line 122 returned m.ret, then line 132.
UseMatched(m) ==
    Resolved(m, <<Call("match_template", "ok"),
                  Call("validate_template", OutOf(validate_template(m.ret)))>>,
             m.ret, validate_template(m.ret), FALSE)

\* Line 122 was interrupted.
MatchInterrupted(m) ==
    Resolved(m, <<Call("match_template", "interrupt")>>, NoTemplate, NoError, TRUE)

\* Lines 127 / 130 and 132: load the explicit template, then validate it.
\* `pre` is the calls made before (the matcher, when it was tried).
LoadExplicit(m, pre) ==
    LET l == load_json_file(fs.template) IN
    IF l.err.kind # "ok"
    THEN Resolved(m, pre \o <<Call("load_json_file(template)", "error")>>,
                  NoTemplate, l.err, FALSE)
    ELSE Resolved(m, pre \o <<Call("load_json_file(template)", "ok"),
                              Call("validate_template", OutOf(validate_template(l.value)))>>,
                  l.value, validate_template(l.value), FALSE)

\* Template stage in which a matcher error is escalated instead of caught.
ResolveTemplateNoFallback(m) ==
    IF matcherAvailable
    THEN IF m.outcome = "ok" THEN UseMatched(m)
         ELSE IF m.outcome = "interrupt" THEN MatchInterrupted(m)
         ELSE Resolved(m, <<Call("match_template", "error")>>, NoTemplate,
                       MatcherError, FALSE)
    ELSE LoadExplicit(MatcherAbsent, <<>>)

\* Template stage that reads the explicit file even when the matcher succeeded
\* and uses it when it loads.
ResolveTemplatePreferFile(m) ==
    IF matcherAvailable
    THEN IF m.outcome = "interrupt" THEN MatchInterrupted(m)
         ELSE IF m.outcome = "ok" /\ load_json_file(fs.template).err.kind # "ok"
         THEN UseMatched(m)
         ELSE LoadExplicit(m, <<Call("match_template", m.outcome)>>)
    ELSE LoadExplicit(MatcherAbsent, <<>>)

\* Template stage that skips validation of a matched template.
ResolveTemplateTrustMatcher(m) ==
    IF matcherAvailable
    THEN IF m.outcome = "ok"
         THEN Resolved(m, <<Call("match_template", "ok")>>, m.ret, NoError, FALSE)
         ELSE IF m.outcome = "interrupt" THEN MatchInterrupted(m)
         ELSE LoadExplicit(m, <<Call("match_template", "error")>>)
    ELSE LoadExplicit(MatcherAbsent, <<>>)

\* Template stage whose inner handler also catches an interrupt of the
\* matcher and falls back to the explicit file.
ResolveTemplateCatchInterrupt(m) ==
    IF matcherAvailable
    THEN IF m.outcome = "ok" THEN UseMatched(m)
         ELSE LoadExplicit(m, <<Call("match_template", m.outcome)>>)
    ELSE LoadExplicit(MatcherAbsent, <<>>)

\* Template stage that treats an invalid matched template as a matching
\* failure and falls back to the explicit file.
ResolveTemplateRetryInvalid(m) ==
    IF matcherAvailable
    THEN IF m.outcome = "ok"
         THEN IF validate_template(m.ret).kind = "ok" THEN UseMatched(m)
              ELSE LoadExplicit(m, <<Call("match_template", "ok"),
                                     Call("validate_template", "error")>>)
         ELSE IF m.outcome = "interrupt" THEN MatchInterrupted(m)
         ELSE LoadExplicit(m, <<Call("match_template", "error")>>)
    ELSE LoadExplicit(MatcherAbsent, <<>>)

\* The try block of lines 117-132 for matcher outcome m: the calls made, the
\* value assigned to `template`, and the Exception raised (NoError if none).
ResolveTemplate(m) ==
    IF matcherAvailable
    THEN IF m.outcome = "ok" THEN UseMatched(m)
         ELSE IF m.outcome = "interrupt" THEN MatchInterrupted(m)
         ELSE LoadExplicit(m, <<Call("match_template", "error")>>)
    ELSE LoadExplicit(MatcherAbsent, <<>>)

LoadTemplate ==
    /\ pc = "template"
    /\ stage' = 2
    /\ \E m \in MatcherOutcomes :
         LET r == ResolveTemplate(m) IN
         /\ matched' = r.matched
         /\ calls' = calls \o r.calls
         /\ template' = r.template
         /\ IF r.interrupted THEN Cancelled
            ELSE IF r.err.kind # "ok" THEN Abort(2, "TemplateLoadFailed", r.err)
            ELSE Continue("extract")
    /\ UNCHANGED <<env, fs, extracted_data, override_data, final_data,
                   extractorArgs, fillerArgs>>

\* ------------------------------------------ stage 3, lines 139-152 of main
\* The Exception raised by the report of lines 144-148: len() of a value
\* without length, or of a field value that is no str.
ReportExtracted(data) ==
    IF data.type = "None" THEN Err("TypeError", -1)
    ELSE IF data.type # "dict" THEN Err("AttributeError", -1)
    ELSE IF \E k \in DOMAIN data.map : data.map[k] = NonStr THEN Err("TypeError", -1)
    ELSE NoError

\* What follows the extractor's outcome x.
AfterExtract(x) ==
    IF x.outcome = "interrupt"
    THEN /\ calls' = calls \o <<Call("extract_data_from_image", "interrupt")>>
         /\ Cancelled
         /\ UNCHANGED extracted_data
    ELSE IF x.outcome = "error"
    THEN /\ calls' = calls \o <<Call("extract_data_from_image", "error")>>
         /\ Abort(3, "ExtractionFailed", CollaboratorError)
         /\ UNCHANGED extracted_data
    ELSE /\ calls' = calls \o <<Call("extract_data_from_image", "ok"),
                                Call("report_extracted", OutOf(ReportExtracted(x.ret)))>>
         /\ extracted_data' = x.ret
         /\ IF ReportExtracted(x.ret).kind # "ok"
            THEN Abort(3, "ExtractionFailed", ReportExtracted(x.ret))
            ELSE Continue("override")

Extract ==
    /\ pc = "extract"
    /\ stage' = 3
    /\ extractorArgs' = template
    /\ \E x \in ExtractorOutcomes : AfterExtract(x)
    /\ UNCHANGED <<env, fs, matched, template, override_data, final_data, fillerArgs>>

\* ------------------------------------------ stage 4, lines 154-172 of main
\* The Exception raised by the report of lines 161-163.
ReportOverride(data) ==
    IF data.type = "None" THEN Err("TypeError", -1)
    ELSE IF data.type # "dict" THEN Err("AttributeError", -1)
    ELSE NoError

\* Stage 4 that goes on without overrides when the override file does not
\* load (the error of line 160 is swallowed).
ProcessOverridesLenient ==
    /\ pc = "override"
    /\ stage' = 4
    /\ calls' = calls \o (IF StrTruthy(args.data)
                          THEN <<Call("load_json_file(data)",
                                      OutOf(load_json_file(fs.data).err))>>
                          ELSE <<>>) \o <<Call("merge_data", "ok")>>
    /\ override_data' = NoneData
    /\ final_data' = merge_data(extracted_data, NoneData)
    /\ Continue("fill")
    /\ UNCHANGED <<env, fs, matched, template, extracted_data, extractorArgs,
                   fillerArgs>>

ProcessOverrides ==
    /\ pc = "override"
    /\ stage' = 4
    /\ IF StrTruthy(args.data)
       THEN LET l == load_json_file(fs.data) IN
            IF l.err.kind # "ok"
            THEN /\ calls' = calls \o <<Call("load_json_file(data)", "error")>>
                 /\ Abort(4, "OverrideLoadFailed", l.err)
                 /\ UNCHANGED <<override_data, final_data>>
            ELSE IF ReportOverride(l.value).kind # "ok"
            THEN /\ calls' = calls \o <<Call("load_json_file(data)", "ok"),
                                        Call("report_override", "error")>>
                 /\ override_data' = l.value
                 /\ Abort(4, "OverrideLoadFailed", ReportOverride(l.value))
                 /\ UNCHANGED final_data
            ELSE /\ calls' = calls \o <<Call("load_json_file(data)", "ok"),
                                        Call("report_override", "ok"),
                                        Call("merge_data", "ok")>>
                 /\ override_data' = l.value
                 /\ final_data' = merge_data(extracted_data, l.value)
                 /\ Continue("fill")
       ELSE /\ calls' = calls \o <<Call("merge_data", "ok")>>
            /\ override_data' = NoneData
            /\ final_data' = merge_data(extracted_data, NoneData)
            /\ Continue("fill")
    /\ UNCHANGED <<env, fs, matched, template, extracted_data, extractorArgs,
                   fillerArgs>>

\* ------------------------------------------ stage 5, lines 174-183 of main
\* A collaborator call that ends in an Exception but is not treated as a
\* failure of its stage (the error is swallowed and the run goes on).
AfterCallSwallow(o, n, rep, next) ==
    IF o = "interrupt" THEN Cancelled
    ELSE Continue(next)

\* What follows the outcome o of a collaborator call of stage n.
AfterCall(o, n, rep, next) ==
    IF o = "interrupt" THEN Cancelled
    ELSE IF o = "error" THEN Abort(n, rep, CollaboratorError)
    ELSE Continue(next)

\* Stage 5 that passes the extracted data instead of the merged data.
FillUnmerged ==
    /\ pc = "fill"
    /\ stage' = 5
    /\ fillerArgs' = [template |-> template, data |-> extracted_data]
    /\ \E o \in CallOutcomes :
         /\ calls' = calls \o <<Call("fill_form", o)>>
         /\ AfterCall(o, 5, "FillFailed", "save")
    /\ UNCHANGED <<env, fs, matched, locals, extractorArgs>>

\* Stage 5 that creates the output directory (line 191) before filling.
FillAfterMkdir ==
    /\ pc = "fill"
    /\ stage' = 5
    /\ fillerArgs' = [template |-> template, data |-> final_data]
    /\ fs' = [fs EXCEPT !.outdir = TRUE]
    /\ \E o \in CallOutcomes :
         /\ calls' = calls \o <<Call("mkdir", "ok"), Call("fill_form", o)>>
         /\ AfterCall(o, 5, "FillFailed", "save")
    /\ UNCHANGED <<env, matched, locals, extractorArgs>>

Fill ==
    /\ pc = "fill"
    /\ stage' = 5
    /\ fillerArgs' = [template |-> template, data |-> final_data]
    /\ \E o \in CallOutcomes :
         /\ calls' = calls \o <<Call("fill_form", o)>>
         /\ AfterCall(o, 5, "FillFailed", "save")
    /\ UNCHANGED <<env, fs, matched, locals, extractorArgs>>

\* ------------------------------------------ stage 6, lines 185-198 of main
\* Line 191 fails (the parent cannot be created): SaveFailed, saver not called.
SaveMkdirFails ==
    /\ pc = "save"
    /\ stage' = 6
    /\ ~fs.outdir
    /\ calls' = calls \o <<Call("mkdir", "error")>>
    /\ Abort(6, "SaveFailed", Err("OSError", -1))
    /\ UNCHANGED <<env, fs, matched, locals, extractorArgs, fillerArgs>>

\* Stage 6 without line 191: the saver is called on the output path as it is.
SaveWithoutMkdir ==
    /\ pc = "save"
    /\ stage' = 6
    /\ \E o \in CallOutcomes :
         /\ calls' = calls \o <<Call("save_filled_form", o)>>
         /\ fs' = [fs EXCEPT !.output = (o = "ok")]
         /\ IF o = "ok"
            THEN /\ pc' = "exit"
                 /\ exitCode' = 0
                 /\ report' = "Success"
                 /\ UNCHANGED <<cause, failedStage>>
            ELSE AfterCall(o, 6, "SaveFailed", "exit")
    /\ UNCHANGED <<env, matched, locals, extractorArgs, fillerArgs>>

\* Lines 191-194, then the summary of lines 200-209 and exit code 0.
Save ==
    /\ pc = "save"
    /\ stage' = 6
    /\ \E o \in CallOutcomes :
         /\ calls' = calls \o <<Call("mkdir", "ok"), Call("save_filled_form", o)>>
         /\ fs' = [fs EXCEPT !.outdir = TRUE, !.output = (o = "ok")]
         /\ IF o = "ok"
            THEN /\ pc' = "exit"
                 /\ exitCode' = 0
                 /\ report' = "Success"
                 /\ UNCHANGED <<cause, failedStage>>
            ELSE AfterCall(o, 6, "SaveFailed", "exit")
    /\ UNCHANGED <<env, matched, locals, extractorArgs, fillerArgs>>

\* ------------------------------------------------ interrupt between calls
\* SIGINT while main itself runs (between two collaborator calls).
UserInterrupt ==
    /\ pc \in {"validate", "template", "extract", "override", "fill", "save"}
    /\ Cancelled
    /\ UNCHANGED <<stage, env, fs, calls, matched, locals, extractorArgs, fillerArgs>>

Next ==
    \/ ImportModules
    \/ ValidateInputs
    \/ LoadTemplate
    \/ Extract
    \/ ProcessOverrides
    \/ Fill
    \/ SaveMkdirFails
    \/ Save
    \/ UserInterrupt

Spec == Init /\ [][Next]_vars

\* --------------------------------------- validate_template applied alone
Idle ==
    /\ args = [data |-> "None"]
    /\ matcherAvailable = FALSE
    /\ fs = [image |-> FALSE, template |-> BadFile("missing", NoTemplate),
             data |-> BadFile("missing", UnsetData), outdir |-> FALSE,
             output |-> FALSE]
    /\ fs0 = fs
    /\ shared = FALSE
    /\ exitCode = -1
    /\ report = "none"
    /\ failedStage = 0
    /\ stage = 0
    /\ calls = <<>>
    /\ matched = NotRun
    /\ extractorArgs = NoTemplate
    /\ fillerArgs = NoFillerArgs

InitValidate ==
    /\ Idle
    /\ pc = "call"
    /\ template \in TemplateValues(MaxFields)
    /\ passed = UnsetData
    /\ cause = NoError
    /\ extracted_data = UnsetData
    /\ override_data = UnsetData
    /\ final_data = UnsetData

\* validate_template(template): `cause` receives the error raised.
ValidateTemplateCall ==
    /\ pc = "call"
    /\ pc' = "return"
    /\ calls' = <<Call("validate_template", OutOf(validate_template(template)))>>
    /\ cause' = validate_template(template)
    /\ UNCHANGED <<stage, env, fs, exitCode, report, failedStage, matched, locals,
                   extractorArgs, fillerArgs>>

NextValidate == ValidateTemplateCall

SpecValidate == InitValidate /\ [][NextValidate]_vars

\* ---------------------------------------------- merge_data applied alone
MergeInputs == {DictOf(m) : m \in MapsOver(KeysUpTo(MaxKeys), Vals)}

InitMerge ==
    /\ Idle
    /\ pc = "call"
    /\ template = NoTemplate
    /\ cause = NoError
    /\ extracted_data \in MergeInputs
    /\ passed = extracted_data
    /\ override_data \in MergeInputs \cup {NoneData}
    /\ final_data = UnsetData

\* What a call leaves behind: the content of the argument object, the
\* returned dict, and whether the two are one object.
Effect(e, m, sh) == [extracted |-> e, merged |-> m, shared |-> sh]

\* merge_data without the copy of line 55 (merged = extracted_data): the
\* update writes into the caller's dict, which is also what is returned.
merge_data_in_place(e, o) == Effect(merge_data(e, o), merge_data(e, o), TRUE)

\* Lines 55-58 on objects: line 55 copies, so line 57 writes only into the
\* copy and the dict returned is not the argument.
merge_data_call(e, o) == Effect(e, merge_data(e, o), FALSE)

\* What does not change while merge_data is applied alone.
mergeFrame == <<stage, args, matcherAvailable, fs0, passed, fs, exitCode, report,
                cause, failedStage, matched, template, override_data,
                extractorArgs, fillerArgs>>

\* final_data = merge_data(extracted_data, override_data), line 171.
MergeDataCall ==
    /\ pc = "call"
    /\ pc' = "return"
    /\ calls' = <<Call("merge_data", "ok")>>
    /\ LET r == merge_data_call(extracted_data, override_data) IN
         /\ final_data' = r.merged
         /\ extracted_data' = r.extracted
         /\ shared' = r.shared
    /\ UNCHANGED mergeFrame

\* The caller merges the result with the same overrides once more.
MergeAgainCall ==
    /\ pc = "return"
    /\ pc' = "again"
    /\ calls' = calls \o <<Call("merge_data_again", "ok")>>
    /\ final_data' = merge_data(final_data, override_data)
    /\ UNCHANGED <<extracted_data, shared>>
    /\ UNCHANGED mergeFrame

\* The caller writes final_data[k] = v into the dict that was returned; the
\* write shows in extracted_data when both are one object.
WriteResult ==
    /\ pc = "return"
    /\ pc' = "written"
    /\ \E k \in KeysUpTo(MaxKeys), v \in Vals :
         /\ final_data' = DictOf(Update(final_data.map, [x \in {k} |-> v]))
         /\ extracted_data' = IF shared THEN final_data' ELSE extracted_data
    /\ UNCHANGED <<calls, shared>>
    /\ UNCHANGED mergeFrame

NextMerge ==
    \/ MergeDataCall
    \/ MergeAgainCall
    \/ WriteResult

SpecMerge == InitMerge /\ [][NextMerge]_vars

\* ============================================================ properties
Invoked(fn) == \E i \in DOMAIN calls : calls[i].fn = fn
Made(fn, out) == \E i \in DOMAIN calls : calls[i] = Call(fn, out)
Collaborators ==
    <<"match_template", "extract_data_from_image", "fill_form", "save_filled_form">>
IsCollaborator(c) == \E i \in DOMAIN Collaborators : Collaborators[i] = c.fn
Rank(fn) == CHOOSE i \in DOMAIN Collaborators : Collaborators[i] = fn
CollaboratorCalls == SelectSeq(calls, IsCollaborator)

\* Stage 1 passes on the filesystem as it is (stated on args and fs alone).
\* An override path counts as supplied when args.data is a non-empty string.
DataSupplied == args.data \notin {"None", ""}
InputsPresent ==
    /\ fs.image
    /\ fs.template.st # "missing"
    /\ DataSupplied => fs.data.st # "missing"

\* A template that meets the shape rules (stated without the validator).
IsValidTemplate(t) ==
    /\ t.type = "dict"
    /\ t.hasFields
    /\ t.fields.type = "list"
    /\ \A i \in DOMAIN t.fields.items :
         /\ t.fields.items[i].type = "dict"
         /\ FieldKeys \subseteq t.fields.items[i].keys

\* C1: the collaborators run in the order matcher, extractor, filler, saver,
\* each at most once and no step is repeated; a collaborator of a stage runs
\* only after every earlier stage succeeded; nothing is called after a failed
\* call (but for the explicit-template fallback after a matcher error), and
\* a failed stage ends the run with a non-zero exit code.
C1_StagedOrder ==
    LET cc == CollaboratorCalls IN
    /\ \A i, j \in DOMAIN cc : i < j => Rank(cc[i].fn) < Rank(cc[j].fn)
    /\ \A i, j \in DOMAIN calls : i < j => calls[i].fn # calls[j].fn
    /\ \A i \in DOMAIN calls :
         (i < Len(calls) /\ calls[i].out # "ok")
             => calls[i] = Call("match_template", "error")
    /\ calls # <<>> => InputsPresent
    /\ Invoked("extract_data_from_image") => Made("validate_template", "ok")
    /\ Invoked("fill_form") =>
         /\ Made("extract_data_from_image", "ok")
         /\ Made("report_extracted", "ok")
         /\ Made("merge_data", "ok")
    /\ Invoked("save_filled_form") => Made("fill_form", "ok")
    /\ (calls # <<>> /\ calls[Len(calls)].out # "ok") =>
         (pc = "exit" /\ exitCode \notin {-1, 0})
    /\ failedStage # 0 => (pc = "exit" /\ exitCode \notin {-1, 0})

\* A run in which the filler failed after the matcher and the extractor ran.
C1_Witness ==
    /\ pc = "exit"
    /\ failedStage = 5
    /\ Made("match_template", "ok")
    /\ Made("extract_data_from_image", "ok")
    /\ Made("fill_form", "error")

\* C2: when stage 1 is executed and the image, the explicit template or a
\* supplied override file does not exist, the run ends there with
\* InputNotFound and exit code 1 and nothing (collaborator or loader) is
\* ever called; an override path that was not supplied never fails stage 1.
C2_InputNotFound ==
    /\ (stage >= 1 /\ ~InputsPresent) =>
         /\ pc = "exit"
         /\ stage = 1
         /\ failedStage = 1
         /\ report = "InputNotFound"
         /\ exitCode = 1
         /\ calls = <<>>
    /\ (fs.image /\ fs.template.st # "missing" /\ ~DataSupplied) => failedStage # 1

\* The run aborted at stage 1 because only the supplied override file is missing.
C2_Witness ==
    /\ report = "InputNotFound"
    /\ fs.image
    /\ fs.template.st # "missing"
    /\ args.data = "data.json"
    /\ fs.data.st = "missing"

\* C3: when the matcher returned a template, the working template is the
\* matcher's output and the explicit template file is never loaded.
C3_MatcherWins ==
    matched.outcome = "ok" =>
        /\ template = matched.ret
        /\ ~Invoked("load_json_file(template)")

\* The matcher returned a template that differs from the one in the file.
C3_Witness ==
    /\ matched.outcome = "ok"
    /\ fs.template.st = "ok"
    /\ IsValidTemplate(fs.template.json)
    /\ fs.template.json # matched.ret
    /\ pc = "extract"

\* The errors load_json_file and validate_template raise.
LoadOrValidationKinds ==
    {"FileNotFound", "ParseError", "OSError", "TypeError", "MissingFieldsKey",
     "FieldsNotList", "FieldNotObject", "FieldMissingName", "FieldMissingBBox"}

ExplicitTemplateGood == fs.template.st = "ok" /\ IsValidTemplate(fs.template.json)

\* C4: a matcher error is followed by the load of the explicit template; if
\* that template loads and validates it becomes the working template, else
\* the run ends in stage 2 with TemplateLoadFailed, exit code 1, a load or
\* validation error as cause (never the matcher's), extractor not invoked.
C4_MatcherFallback ==
    matched.outcome = "error" =>
        /\ Len(calls) >= 2
        /\ calls[1] = Call("match_template", "error")
        /\ calls[2].fn = "load_json_file(template)"
        /\ ExplicitTemplateGood => (template = fs.template.json /\ failedStage # 2)
        /\ ~ExplicitTemplateGood =>
             /\ pc = "exit"
             /\ failedStage = 2
             /\ report = "TemplateLoadFailed"
             /\ exitCode = 1
             /\ cause.kind \in LoadOrValidationKinds
             /\ ~Invoked("extract_data_from_image")

\* The matcher failed and the explicit template failed validation.
C4_Witness ==
    /\ matched.outcome = "error"
    /\ report = "TemplateLoadFailed"
    /\ cause = Err("FieldMissingName", 0)

\* The explicit template file holds a dict whose `fields` is no list.
FileFieldsNotList ==
    /\ fs.template.st = "ok"
    /\ fs.template.json.type = "dict"
    /\ fs.template.json.hasFields
    /\ fs.template.json.fields.type # "list"

\* C5 as stated: whenever stage 2 has run (uninterrupted) on an explicit
\* template file whose `fields` is no list, the validator failed with
\* FieldsNotList and the extractor was not invoked.
C5_AsStated ==
    (stage >= 2 /\ report # "UserCancelled" /\ FileFieldsNotList) =>
        /\ cause = Err("FieldsNotList", -1)
        /\ ~Invoked("extract_data_from_image")

\* C5: whenever the template is loaded from the explicit file and its
\* `fields` is no list, the validator fails with FieldsNotList and the run
\* ends in stage 2 before the extractor is invoked.
C5_FieldsNotList ==
    (Invoked("load_json_file(template)") /\ FileFieldsNotList) =>
        /\ Made("validate_template", "error")
        /\ cause = Err("FieldsNotList", -1)
        /\ pc = "exit"
        /\ failedStage = 2
        /\ report = "TemplateLoadFailed"
        /\ exitCode = 1
        /\ ~Invoked("extract_data_from_image")

\* The explicit template with a non-list `fields` was loaded after a
\* matcher error.
C5_Witness ==
    /\ matched.outcome = "error"
    /\ Invoked("load_json_file(template)")
    /\ FileFieldsNotList
    /\ pc = "exit"

\* C6: the template given to the extractor and to the filler is valid, and
\* both receive the same template, the working template of the run.
C6_ValidatedTemplate ==
    /\ Invoked("extract_data_from_image") =>
         (IsValidTemplate(extractorArgs) /\ extractorArgs = template)
    /\ Invoked("fill_form") =>
         /\ IsValidTemplate(fillerArgs.template)
         /\ fillerArgs.template = extractorArgs

\* The filler ran on a matched template with a field.
C6_Witness ==
    /\ Invoked("fill_form")
    /\ matched.outcome = "ok"
    /\ Len(fillerArgs.template.fields.items) >= 1

\* -------------------------------------------- validate_template, C7 and C8
\* The state after validate_template(template) was applied to a dict.
ValidatedDict == pc = "return" /\ Invoked("validate_template") /\ template.type = "dict"
HasFieldList(t) == t.type = "dict" /\ t.hasFields /\ t.fields.type = "list"
LacksName(f) == f.type = "dict" /\ "name" \notin f.keys
GoodField(f) == f.type = "dict" /\ FieldKeys \subseteq f.keys
\* The 1-based positions of the fields that are dicts without `name`.
NamelessAt(t) == {i \in DOMAIN t.fields.items : LacksName(t.fields.items[i])}
Lowest(S) == CHOOSE i \in S : \A j \in S : i <= j

\* C7 as stated: if i is the first index whose field lacks `name`, the
\* validator fails with FieldMissingName(i).
C7_AsStated ==
    (ValidatedDict /\ HasFieldList(template) /\ NamelessAt(template) # {}) =>
        cause = Err("FieldMissingName", Lowest(NamelessAt(template)) - 1)

\* C7: if i is the first index whose field lacks `name` and every field
\* before i is a mapping that contains `pixel_bbox` (and `name`), the
\* validator fails with FieldMissingName(i).
C7_FirstMissingName ==
    (ValidatedDict /\ HasFieldList(template) /\ NamelessAt(template) # {}) =>
        LET i == Lowest(NamelessAt(template)) IN
        (\A j \in 1..(i - 1) : GoodField(template.fields.items[j]))
            => cause = Err("FieldMissingName", i - 1)

\* The validator reported a missing name behind a good field.
C7_Witness ==
    /\ ValidatedDict
    /\ HasFieldList(template)
    /\ Len(template.fields.items) >= 2
    /\ GoodField(template.fields.items[1])
    /\ LacksName(template.fields.items[2])
    /\ cause = Err("FieldMissingName", 1)

\* The positions of the fields that break a rule, and the rule a field breaks.
BadAt(t) == {i \in DOMAIN t.fields.items : ~GoodField(t.fields.items[i])}
FieldRule(f) ==
    IF f.type # "dict" THEN "FieldNotObject"
    ELSE IF "name" \notin f.keys THEN "FieldMissingName"
    ELSE "FieldMissingBBox"
\* The first violation of a dict template in the documented check order.
FirstViolation(t) ==
    IF ~t.hasFields THEN Err("MissingFieldsKey", -1)
    ELSE IF t.fields.type # "list" THEN Err("FieldsNotList", -1)
    ELSE IF BadAt(t) = {} THEN NoError
    ELSE Err(FieldRule(t.fields.items[Lowest(BadAt(t))]), Lowest(BadAt(t)) - 1)

\* C8: a dict template is accepted exactly when it is valid; otherwise the
\* one error raised is the first violation in the check order.
C8_FirstViolationWins ==
    ValidatedDict =>
        /\ cause = FirstViolation(template)
        /\ (cause = NoError) <=> IsValidTemplate(template)
        /\ ~template.hasFields => cause = Err("MissingFieldsKey", -1)

\* Three fields: the second lacks pixel_bbox, the third is no dict; only
\* the earlier violation is reported.
C8_Witness ==
    /\ ValidatedDict
    /\ HasFieldList(template)
    /\ Len(template.fields.items) = 3
    /\ cause = Err("FieldMissingBBox", 1)
    /\ template.fields.items[3].type # "dict"

\* ------------------------------------------------------- merge_data, C9
MergeReturned == pc = "return" /\ Invoked("merge_data")
InBoth(k) == k \in DOMAIN extracted_data.map /\ k \in DOMAIN override_data.map

\* C9: the merged mapping holds O[k] for every key of O, E[k] for every
\* key of E that is not in O, and no other key.
C9_MergeLaw ==
    MergeReturned =>
        /\ final_data.type = "dict"
        /\ DOMAIN final_data.map =
             DOMAIN extracted_data.map \cup DOMAIN override_data.map
        /\ \A k \in DOMAIN final_data.map :
             IF k \in DOMAIN override_data.map
             THEN final_data.map[k] = override_data.map[k]
             ELSE final_data.map[k] = extracted_data.map[k]

\* A merge with a key in both (values differ), and a key only in O.
C9_Witness ==
    /\ MergeReturned
    /\ \E k \in DOMAIN override_data.map :
         InBoth(k) /\ extracted_data.map[k] # override_data.map[k]
    /\ \E k \in DOMAIN override_data.map : k \notin DOMAIN extracted_data.map

\* ------------------------------------------------- data given to the filler
\* C10: the filler receives the extractor's data merged with the content of
\* the --data file (override wins on shared keys, every key of either side
\* is present), and exactly the extractor's data when --data is not given.
C10_FillerData ==
    Invoked("fill_form") =>
        /\ Made("extract_data_from_image", "ok")
        /\ fillerArgs.data.type = "dict"
        /\ ~DataSupplied => fillerArgs.data = extracted_data
        /\ DataSupplied =>
             /\ fs.data.st = "ok"
             /\ DOMAIN fillerArgs.data.map =
                  DOMAIN extracted_data.map \cup DOMAIN fs.data.json.map
             /\ \A k \in DOMAIN fillerArgs.data.map :
                  IF k \in DOMAIN fs.data.json.map
                  THEN fillerArgs.data.map[k] = fs.data.json.map[k]
                  ELSE fillerArgs.data.map[k] = extracted_data.map[k]

\* The filler ran with an override that replaces an extracted value.
C10_Witness ==
    /\ Invoked("fill_form")
    /\ DataSupplied
    /\ \E k \in DOMAIN extracted_data.map :
         /\ k \in DOMAIN fs.data.json.map
         /\ extracted_data.map[k] # fs.data.json.map[k]
         /\ fillerArgs.data.map[k] = fs.data.json.map[k]

\* ------------------------------------------------------------ exit codes
\* All six stages succeeded, stated on the call history and the inputs.
AllStagesSucceeded ==
    /\ InputsPresent
    /\ Made("validate_template", "ok")
    /\ Made("extract_data_from_image", "ok")
    /\ Made("merge_data", "ok")
    /\ Made("fill_form", "ok")
    /\ Made("mkdir", "ok")
    /\ Made("save_filled_form", "ok")

\* C11: a run that has ended has exit code 0 or 1; it is 0 exactly when all
\* six stages succeeded (the saver was invoked and returned); a run that has
\* not ended has no exit code.
C11_ExitCode ==
    /\ pc = "exit" <=> exitCode # -1
    /\ pc = "exit" =>
         /\ exitCode \in {0, 1}
         /\ exitCode = 0 <=> AllStagesSucceeded
         /\ exitCode = 0 <=> Made("save_filled_form", "ok")
         /\ exitCode = 0 <=> report = "Success"

\* A run cancelled by the user while the saver ran: exit code 1.
C11_Witness ==
    /\ pc = "exit"
    /\ exitCode = 1
    /\ Made("fill_form", "ok")
    /\ Made("save_filled_form", "interrupt")

\* --------------------------------------------------- merge_data on objects
MergeApplied == pc \in {"return", "again", "written"} /\ Invoked("merge_data")

\* C12: merge_data leaves its extracted_data argument as it was passed, for
\* every override, also after the caller changed the returned dict; the
\* returned dict is never the argument object, and with O = None (or {})
\* it is equal to E.
C12_NoMutation ==
    MergeApplied =>
        /\ extracted_data = passed
        /\ ~shared
        /\ (pc = "return" /\ ~Truthy(override_data)) => final_data = passed

\* The result of a merge without overrides was changed by the caller and
\* now differs from E.
C12_Witness ==
    /\ pc = "written"
    /\ override_data = NoneData
    /\ final_data # extracted_data
    /\ extracted_data = passed

\* C13: merging the result of merge_data(E, O) with the same O once more
\* gives merge_data(E, O) again.
C13_Idempotent ==
    (pc = "again" /\ Invoked("merge_data_again")) =>
        final_data = merge_data(passed, override_data)

\* A second merge where O replaced a value of E and added a key.
C13_Witness ==
    /\ pc = "again"
    /\ \E k \in DOMAIN override_data.map :
         k \in DOMAIN passed.map /\ passed.map[k] # override_data.map[k]
    /\ \E k \in DOMAIN override_data.map : k \notin DOMAIN passed.map

\* ------------------------------------------------------ override stage
\* C14: once stage 4 has run with a supplied override file that does not
\* load, the run has ended there with OverrideLoadFailed and exit code 1,
\* with the load error as cause, and nothing was merged, filled or saved;
\* without an override path stage 4 loads nothing, does not fail, and goes
\* on to fill with the extracted data alone.
C14_OverrideLoad ==
    /\ (stage >= 4 /\ DataSupplied /\ fs.data.st # "ok") =>
         /\ pc = "exit"
         /\ stage = 4
         /\ failedStage = 4
         /\ report = "OverrideLoadFailed"
         /\ exitCode = 1
         /\ Made("load_json_file(data)", "error")
         /\ cause.kind \in {"FileNotFound", "ParseError", "OSError"}
         /\ ~Invoked("merge_data")
         /\ ~Invoked("fill_form")
         /\ ~Invoked("save_filled_form")
         /\ final_data = UnsetData
    /\ (stage >= 4 /\ ~DataSupplied) =>
         /\ failedStage # 4
         /\ ~Invoked("load_json_file(data)")
         /\ Made("merge_data", "ok")
         /\ override_data = NoneData
         /\ final_data = extracted_data
         /\ stage = 4 => (pc = "fill" \/ report = "UserCancelled")

\* Stage 4 ended the run on an override file that is not valid JSON.
C14_Witness ==
    /\ stage = 4
    /\ DataSupplied
    /\ fs.data.st = "invalid"
    /\ report = "OverrideLoadFailed"
    /\ cause = Err("ParseError", -1)

\* ---------------------------------------------------------- save stage
IndexOf(fn) == CHOOSE i \in DOMAIN calls : calls[i].fn = fn

\* C15: when the saver has been invoked the parent directory of the output
\* path exists and the mkdir of line 191 succeeded before the call; when
\* that mkdir fails the run ends with SaveFailed and exit code 1 and the
\* saver is not invoked.
C15_ParentDirectory ==
    /\ Invoked("save_filled_form") =>
         /\ fs.outdir
         /\ Made("mkdir", "ok")
         /\ IndexOf("mkdir") < IndexOf("save_filled_form")
    /\ Made("mkdir", "error") =>
         /\ pc = "exit"
         /\ failedStage = 6
         /\ report = "SaveFailed"
         /\ exitCode = 1
         /\ ~Invoked("save_filled_form")
         /\ ~fs.output

\* The saver ran after the missing parent directory was created.
C15_Witness ==
    /\ Made("save_filled_form", "ok")
    /\ ~fs0.outdir
    /\ fs.outdir

\* ----------------------------------------------------------- interrupt
\* C16: a call that ended by a user interrupt is the last call of the run,
\* and the run has ended with the report UserCancelled, exit code 1 and no
\* failed stage; an interrupted matcher is not followed by the load of the
\* explicit template.
C16_Interrupt ==
    /\ \A i \in DOMAIN calls :
         calls[i].out = "interrupt" =>
           /\ i = Len(calls)
           /\ pc = "exit"
           /\ report = "UserCancelled"
    /\ report = "UserCancelled" =>
         /\ pc = "exit"
         /\ exitCode = 1
         /\ failedStage = 0
    /\ matched.outcome = "interrupt" =>
         /\ ~Invoked("load_json_file(template)")
         /\ ~Invoked("validate_template")
         /\ calls = <<Call("match_template", "interrupt")>>

\* The matcher was interrupted while a valid explicit template was on file.
C16_Witness ==
    /\ matched.outcome = "interrupt"
    /\ ExplicitTemplateGood
    /\ report = "UserCancelled"

\* ----------------------------------------------------------- reporting
\* The stages 3 and 4 of a run without the reports of lines 144-148 and
\* 161-163 hold one raising statement each (lines 143 and 160): such a run
\* fails in stage 3 only when the extractor raised, and in stage 4 only when
\* load_json_file raised.
SilentStageFailure(n) ==
    IF n = 3 THEN Made("extract_data_from_image", "error")
    ELSE IF n = 4 THEN Made("load_json_file(data)", "error")
    ELSE TRUE

\* C17: reporting is a side effect only: a run fails in the stage in which
\* the same run without reporting fails, so no run fails in stage 3 or 4
\* because a report raised.
C17_ReportingInert ==
    /\ failedStage \in {3, 4} => SilentStageFailure(failedStage)
    /\ ~Made("report_extracted", "error")
    /\ ~Made("report_override", "error")

\* ------------------------------------------- invalid matched template
MatchedInvalid == matched.outcome = "ok" /\ ~IsValidTemplate(matched.ret)

\* C18: when the matcher returned a template that fails validation the run
\* has ended in stage 2 with TemplateLoadFailed and exit code 1, the cause is
\* the validation error of the matched template, and neither the load of the
\* explicit template nor the extractor has been invoked.
C18_InvalidMatchFatal ==
    MatchedInvalid =>
      /\ pc = "exit"
      /\ failedStage = 2
      /\ report = "TemplateLoadFailed"
      /\ exitCode = 1
      /\ cause = validate_template(matched.ret)
      /\ cause # MatcherError
      /\ calls = <<Call("match_template", "ok"), Call("validate_template", "error")>>
      /\ ~Invoked("load_json_file(template)")
      /\ ~Invoked("extract_data_from_image")

\* The matched template was invalid while the explicit file held a valid one.
C18_Witness ==
    /\ MatchedInvalid
    /\ ExplicitTemplateGood
    /\ report = "TemplateLoadFailed"

\* -------------------------------------------------- no partial output
\* C19: a run that failed in one of the stages 1 to 5 has neither created
\* the output directory nor invoked the saver, and the filesystem is as it
\* was when the run started; the filesystem changes only after line 191 ran.
C19_NoPartialOutput ==
    /\ failedStage \in 1..5 =>
         /\ ~Invoked("mkdir")
         /\ ~Invoked("save_filled_form")
         /\ fs = fs0
    /\ fs # fs0 => Made("mkdir", "ok")

\* The filler failed in a run whose output directory did not exist.
C19_Witness ==
    /\ failedStage = 5
    /\ Made("fill_form", "error")
    /\ ~fs0.outdir
    /\ ~fs.outdir

\* ------------------------------------------- when the override is read
Unparseable == DataSupplied /\ fs.data.st = "invalid"

\* The claim as stated: every run that aborts with OverrideLoadFailed has
\* invoked the matcher and the extractor.
C20_AsStated ==
    /\ Invoked("load_json_file(data)") => Made("extract_data_from_image", "ok")
    /\ report = "OverrideLoadFailed" =>
         /\ Invoked("match_template")
         /\ Made("extract_data_from_image", "ok")
    /\ failedStage = 3 => ~Invoked("load_json_file(data)")

\* C20: the override file is read only after the extractor returned and its
\* result was reported; stage 1 fails on no input whose path exists, so a
\* run with an unparseable override file does not fail there; a run that
\* aborts with OverrideLoadFailed has failed in stage 4 after the extractor
\* completed and, when a matcher is available, after the matcher completed
\* (without a matcher it was never invoked); a run that fails in stage 3 has
\* not read the override file.
C20_ParseAfterExtraction ==
    /\ Invoked("load_json_file(data)") =>
         /\ Made("extract_data_from_image", "ok")
         /\ Made("report_extracted", "ok")
         /\ IndexOf("extract_data_from_image") < IndexOf("load_json_file(data)")
    /\ (stage >= 1 /\ InputsPresent) => failedStage # 1
    /\ report = "OverrideLoadFailed" =>
         /\ failedStage = 4
         /\ exitCode = 1
         /\ Made("extract_data_from_image", "ok")
         /\ matcherAvailable =>
              \/ Made("match_template", "ok")
              \/ Made("match_template", "error")
         /\ ~matcherAvailable => ~Invoked("match_template")
    /\ (Unparseable /\ Invoked("load_json_file(data)")) =>
         /\ report = "OverrideLoadFailed"
         /\ cause = Err("ParseError", -1)
    /\ failedStage = 3 =>
         /\ ~Invoked("load_json_file(data)")
         /\ override_data = UnsetData

\* An unparseable override file stopped the run in stage 4, after matcher and
\* extractor had returned.
C20_Witness ==
    /\ Unparseable
    /\ report = "OverrideLoadFailed"
    /\ Made("match_template", "ok")
    /\ Made("extract_data_from_image", "ok")

====
